---- MODULE Spec2Model ----
(***************************************************************************)
(* A model of eternal-green: the configuration record and its manager      *)
(* (eternal_green/config.py) and the activity simulator and its loop       *)
(* (eternal_green/simulator.py).                                           *)
(*                                                                         *)
(* Python values are tagged records [t, v]: t is the Python type, v an     *)
(* integer (the number itself; 0/1 for a bool; for a str the index of the  *)
(* string in lexicographic order: 0 is "", 1 is "a.log", 2 is "abc",       *)
(* 3 is "~/.eternal_green.log").                                           *)
(***************************************************************************)
EXTENDS Integers, Sequences, FiniteSets, TLC

VARIABLES
    file,      \* content of the config file at ConfigManager.config_path
    heap,      \* the live EternalGreenConfig objects: identity |-> field values
    cache,     \* ConfigManager._config: 0 for None, else an identity in heap
    by_mgr,    \* TRUE iff the last writer of the file was the manager
    last,      \* the last manager call: its inputs, outcome and pre-state
    vcfg,      \* a record handed to validate()
    vout,      \* what validate() did with vcfg
    config,    \* ActivitySimulator.config
    log_ok,    \* TRUE iff the log file of the simulator's logger can be opened
    sim,       \* ActivitySimulator: _running, _stop_event (flag, lock, notified),
               \* _original_sigint_handler, and its logger's _logger (ready)
    sig,       \* the process: the installed SIGINT handler, SIGINTs delivered
    main,      \* the main thread inside start_loop: position, locals, exception
    handler,   \* _handle_sigint's frame on the main thread ("none": not running)
    stopper,   \* another thread calling stop()
    mouse,     \* the cursor position
    cyc,       \* the current (or last) simulate_activity cycle, as observed
    obs,       \* the run as observed: stop requests, how start_loop ended
    draws,     \* the values successive _get_next_interval() calls returned
    shell,     \* CLIInterface: its _config, where run() stands, what it did
    logs       \* the logging module, the ActivityLoggers and the log files

cfgVars == <<file, heap, cache, by_mgr, last>>
valVars == <<vcfg, vout>>
simVars == <<config, log_ok, sim, sig, main, handler, stopper, mouse, cyc, obs>>
otherVars == <<draws, shell, logs>>
vars == <<file, heap, cache, by_mgr, last, vcfg, vout,
          config, log_ok, sim, sig, main, handler, stopper, mouse, cyc, obs,
          draws, shell, logs>>

\* Bounds: injection cycles in one run, SIGINTs delivered in one run.
MaxCycles == 2
MaxSigints == 1
\* Granularity of the clock: seconds that pass in one step of a wait.
TickSeconds == 5

----------------------------------------------------------------------------
(* Python values *)

PyInt(n) == [t |-> "int", v |-> n]
PyBool(b) == [t |-> "bool", v |-> IF b THEN 1 ELSE 0]
PyStr(s) == [t |-> "str", v |-> s]
PyNone == [t |-> "none", v |-> 0]

\* isinstance(x, int): bool is a subclass of int
IsInt(x) == x.t \in {"int", "bool"}
IsBool(x) == x.t = "bool"
IsStr(x) == x.t = "str"

\* Python's ==: numbers compare by value whatever their type
PyEq(a, b) ==
    IF IsInt(a) /\ IsInt(b) THEN a.v = b.v ELSE a.t = b.t /\ a.v = b.v

\* a >= b is defined between two numbers or two strings, TypeError otherwise
Comparable(a, b) == (IsInt(a) /\ IsInt(b)) \/ (IsStr(a) /\ IsStr(b))

----------------------------------------------------------------------------
(* EternalGreenConfig *)

FieldNames ==
    {"interval_seconds", "movement_pixels", "silent_mode", "log_file_path",
     "random_interval", "interval_range_min", "interval_range_max"}

EternalGreenConfig ==
    [f \in FieldNames |->
        CASE f = "interval_seconds" -> PyInt(300)
          [] f = "movement_pixels" -> PyInt(2)
          [] f = "silent_mode" -> PyBool(FALSE)
          [] f = "log_file_path" -> PyStr(3)
          [] f = "random_interval" -> PyBool(FALSE)
          [] f = "interval_range_min" -> PyInt(10)
          [] f = "interval_range_max" -> PyInt(60)]

\* EternalGreenConfig(**data): unknown keywords are a TypeError, missing
\* ones take the default; no type or range is checked here.
NewConfig(data) ==
    IF DOMAIN data \subseteq FieldNames
    THEN [exc |-> "none",
          rec |-> [f \in FieldNames |->
                      IF f \in DOMAIN data THEN data[f]
                      ELSE EternalGreenConfig[f]]]
    ELSE [exc |-> "TypeError", rec |-> EternalGreenConfig]

Check(cond, name) == IF cond THEN <<name>> ELSE <<>>

\* validate(): the list of error messages, each named by the field it
\* reports ("interval_range_order" for the min < max message); the last
\* test compares the two range fields without a type guard and raises
\* TypeError when Python cannot order them.
validate(c) ==
    LET errors ==
            Check(~IsInt(c.interval_seconds) \/ c.interval_seconds.v < 10
                      \/ c.interval_seconds.v > 3600, "interval_seconds")
            \o Check(~IsInt(c.movement_pixels) \/ c.movement_pixels.v < 1
                      \/ c.movement_pixels.v > 100, "movement_pixels")
            \o Check(~IsBool(c.silent_mode), "silent_mode")
            \o Check(~IsStr(c.log_file_path) \/ c.log_file_path.v = 0,
                     "log_file_path")
            \o Check(~IsBool(c.random_interval), "random_interval")
            \o Check(~IsInt(c.interval_range_min) \/ c.interval_range_min.v < 10
                      \/ c.interval_range_min.v > 3600, "interval_range_min")
            \o Check(~IsInt(c.interval_range_max) \/ c.interval_range_max.v < 10
                      \/ c.interval_range_max.v > 3600, "interval_range_max")
    IN  IF ~Comparable(c.interval_range_min, c.interval_range_max)
        THEN [exc |-> "TypeError", errors |-> <<>>]
        ELSE [exc |-> "none",
              errors |-> errors
                  \o Check(c.interval_range_min.v >= c.interval_range_max.v,
                           "interval_range_order")]

----------------------------------------------------------------------------
(* JSON documents *)

\* json.dump of one value
ToJson(x) ==
    CASE x.t = "bool" -> [j |-> IF x.v = 1 THEN "true" ELSE "false", v |-> 0]
      [] x.t = "int" -> [j |-> "number", v |-> x.v]
      [] x.t = "str" -> [j |-> "string", v |-> x.v]
      [] x.t = "none" -> [j |-> "null", v |-> 0]

\* json.load of one value
FromJson(y) ==
    CASE y.j = "true" -> PyBool(TRUE)
      [] y.j = "false" -> PyBool(FALSE)
      [] y.j = "number" -> PyInt(y.v)
      [] y.j = "string" -> PyStr(y.v)
      [] y.j = "null" -> PyNone

\* a dump that leaves the range fields out of the document
DumpWithoutRange(c) ==
    [k |-> "json_object",
     doc |-> [f \in FieldNames \ {"interval_range_min", "interval_range_max"}
                 |-> ToJson(c[f])]]

\* json.dump(asdict(config)): one key per field
Dump(c) == [k |-> "json_object", doc |-> [f \in FieldNames |-> ToJson(c[f])]]

NoDoc == <<>>
Absent == [k |-> "absent", doc |-> NoDoc]
Undecodable == [k |-> "undecodable", doc |-> NoDoc]
NotJson == [k |-> "text", doc |-> NoDoc]
JsonNonObject == [k |-> "json_other", doc |-> NoDoc]
JsonObject(d) == [k |-> "json_object", doc |-> d]

----------------------------------------------------------------------------
(* ConfigManager.  The manager's state is the record m; every method maps  *)
(* m to the state it leaves, the exception it raises ("none" when it       *)
(* returns) and the object it returns.                                     *)

Mgr == [file |-> file, heap |-> heap, cache |-> cache, by_mgr |-> by_mgr]

\* object allocation: a fresh identity, the smallest one not in use
NewId(h) ==
    CHOOSE n \in 1..(Cardinality(DOMAIN h) + 1) :
        /\ n \notin DOMAIN h
        /\ \A k \in 1..(n - 1) : k \in DOMAIN h
Alloc(h, r) == (NewId(h) :> r) @@ h
\* objects nothing refers to any more are reclaimed
Collect(h, keep) == [i \in DOMAIN h \cap keep |-> h[i]]

\* save() as it would be with the write moved ahead of the validation
saveWritesFirst(m, o) ==
    LET r == validate(m.heap[o])
        w == [m EXCEPT !.file = Dump(m.heap[o]), !.by_mgr = TRUE, !.cache = o]
    IN  IF r.exc # "none" THEN [m |-> w, exc |-> r.exc, ret |-> 0]
        ELSE IF r.errors # <<>> THEN [m |-> w, exc |-> "ValueError", ret |-> 0]
        ELSE [m |-> w, exc |-> "none", ret |-> 0]

\* save(config): validate, raise on any error, else write the file and
\* cache the caller's object itself.
save(m, o) ==
    LET r == validate(m.heap[o])
    IN  IF r.exc # "none" THEN [m |-> m, exc |-> r.exc, ret |-> 0]
        ELSE IF r.errors # <<>> THEN [m |-> m, exc |-> "ValueError", ret |-> 0]
        ELSE [m |-> [m EXCEPT !.file = Dump(m.heap[o]),
                              !.by_mgr = TRUE,
                              !.cache = o],
              exc |-> "none", ret |-> 0]

\* self._config = EternalGreenConfig(); self.save(self._config)
LoadDefaults(m) ==
    LET n == NewId(m.heap)
        h == Alloc(m.heap, EternalGreenConfig)
        s == save([m EXCEPT !.heap = h, !.cache = n], n)
    IN  [m |-> s.m, exc |-> s.exc, ret |-> IF s.exc = "none" THEN n ELSE 0]

\* load(): open(..., 'r') and json.load raise UnicodeDecodeError on bytes
\* the text encoding cannot decode, which the except clause does not
\* name; JSONDecodeError and TypeError fall back to the defaults.
load(m) ==
    CASE m.file.k = "absent" -> LoadDefaults(m)
      [] m.file.k = "undecodable" ->
            [m |-> m, exc |-> "UnicodeDecodeError", ret |-> 0]
      [] m.file.k \in {"text", "json_other"} -> LoadDefaults(m)
      [] m.file.k = "json_object" ->
            LET data == [f \in DOMAIN m.file.doc |-> FromJson(m.file.doc[f])]
                c == NewConfig(data)
                n == NewId(m.heap)
            IN  IF c.exc = "none"
                THEN [m |-> [m EXCEPT !.heap = Alloc(m.heap, c.rec), !.cache = n],
                      exc |-> "none", ret |-> n]
                ELSE LoadDefaults(m)

\* current_data = asdict(self._config); current_data.update(kwargs)
Merge(c, kw) ==
    [f \in FieldNames \cup DOMAIN kw |-> IF f \in DOMAIN kw THEN kw[f] ELSE c[f]]

\* update() as it would be if it set the fields on the cached object
\* itself and saved that object
updateInPlace(m, kw) ==
    LET l == IF m.cache = 0 THEN load(m)
             ELSE [m |-> m, exc |-> "none", ret |-> m.cache]
        c == NewConfig(Merge(l.m.heap[l.m.cache], kw))
        s == save([l.m EXCEPT !.heap[l.m.cache] = c.rec], l.m.cache)
    IN  CASE l.exc # "none" ->
                [m |-> l.m, exc |-> l.exc, ret |-> 0, mid |-> l.m]
          [] l.exc = "none" /\ c.exc # "none" ->
                [m |-> l.m, exc |-> c.exc, ret |-> 0, mid |-> l.m]
          [] OTHER ->
                [m |-> s.m, exc |-> s.exc,
                 ret |-> IF s.exc = "none" THEN l.m.cache ELSE 0,
                 mid |-> l.m]

\* new_config = EternalGreenConfig(**current_data); self.save(new_config)
SaveNew(m, rec) ==
    LET n == NewId(m.heap)
        s == save([m EXCEPT !.heap = Alloc(m.heap, rec)], n)
    IN  [m |-> s.m, exc |-> s.exc, ret |-> IF s.exc = "none" THEN n ELSE 0,
         mid |-> m]

\* update(**kwargs); mid is the manager state the merge started from
update(m, kw) ==
    LET l == IF m.cache = 0 THEN load(m)
             ELSE [m |-> m, exc |-> "none", ret |-> m.cache]
        c == NewConfig(Merge(l.m.heap[l.m.cache], kw))
    IN  CASE l.exc # "none" ->
                [m |-> l.m, exc |-> l.exc, ret |-> 0, mid |-> l.m]
          [] l.exc = "none" /\ c.exc # "none" ->
                [m |-> l.m, exc |-> c.exc, ret |-> 0, mid |-> l.m]
          [] OTHER -> SaveNew(l.m, c.rec)

----------------------------------------------------------------------------
(* The inputs the manager is driven with *)

Rec(is, mp, sm, lp, ri, lo, hi) ==
    [f \in FieldNames |->
        CASE f = "interval_seconds" -> is
          [] f = "movement_pixels" -> mp
          [] f = "silent_mode" -> sm
          [] f = "log_file_path" -> lp
          [] f = "random_interval" -> ri
          [] f = "interval_range_min" -> lo
          [] f = "interval_range_max" -> hi]

\* records a caller hands to save(): valid ones, ones breaking one or
\* several constraints, and one whose range field is not a number
InputRecords ==
    { EternalGreenConfig,
      Rec(PyInt(3600), PyBool(TRUE), PyBool(TRUE), PyStr(1), PyBool(TRUE),
          PyInt(20), PyInt(30)),
      Rec(PyInt(5), PyInt(2), PyBool(FALSE), PyStr(3), PyBool(FALSE),
          PyInt(10), PyInt(60)),
      Rec(PyInt(4000), PyInt(0), PyBool(FALSE), PyStr(0), PyBool(FALSE),
          PyInt(60), PyInt(60)),
      Rec(PyInt(300), PyInt(2), PyBool(FALSE), PyStr(3), PyBool(FALSE),
          PyNone, PyInt(60)) }

\* keyword arguments handed to update()
UpdateArgs ==
    { "interval_seconds" :> PyInt(5),
      "silent_mode" :> PyBool(TRUE),
      "interval_range_min" :> PyInt(30) @@ "interval_range_max" :> PyInt(20),
      "interval_range_min" :> PyInt(20) @@ "interval_range_max" :> PyInt(30),
      "interval_range_max" :> PyStr(2),
      "foo" :> PyInt(1) }

\* what may be on disk when the manager looks: nothing, bytes that do not
\* decode, text that is not JSON, JSON that is not an object, and objects
\* (complete, partial, with an unknown key, out of range, wrongly typed)
FileChoices ==
    { Absent, Undecodable, NotJson, JsonNonObject,
      JsonObject("interval_seconds" :> ToJson(PyInt(20))),
      JsonObject("foo" :> ToJson(PyInt(1))),
      JsonObject("interval_seconds" :> ToJson(PyInt(5))),
      JsonObject("interval_range_min" :> ToJson(PyStr(2))),
      JsonObject("random_interval" :> ToJson(PyBool(TRUE))
                 @@ "interval_range_min" :> ToJson(PyInt(60))
                 @@ "interval_range_max" :> ToJson(PyInt(10))) }

----------------------------------------------------------------------------
(* ActivitySimulator: the state after __init__, before start_loop *)

NewSim ==
    [running |-> FALSE, flag |-> FALSE, lock |-> "free", notified |-> FALSE,
     original_sigint_handler |-> "none", logger_ready |-> FALSE]
NewMain ==
    [pc |-> "idle", next_interval |-> PyNone, original |-> <<0, 0>>,
     exc |-> "none", elapsed |-> 0, gotit |-> FALSE]
NoCycle ==
    [n |-> 0, start |-> <<0, 0>>, failed |-> "none", moved_back |-> FALSE,
     press_calls |-> 0, errors |-> 0, infos |-> 0, result |-> "none",
     after_stop |-> FALSE]
\* the process's SIGINT disposition before start_loop: Python's default
\* handler; SIGINTs delivered; calls of signal.signal by the simulator
NewSig == [handler |-> "default", count |-> 0, installs |-> 0, restores |-> 0]
NewObs ==
    [stop_requested |-> FALSE, exit |-> "none", exc |-> "none",
     shutdowns |-> 0, run |-> 1]

\* the simulator untouched, for the specifications that do not run it
SimIdle ==
    /\ config = EternalGreenConfig
    /\ log_ok = TRUE
    /\ sim = NewSim
    /\ sig = NewSig
    /\ main = NewMain
    /\ handler = "none"
    /\ stopper = "idle"
    /\ mouse = <<0, 0>>
    /\ cyc = NoCycle
    /\ obs = NewObs

\* no interval drawn, no shell running, nothing logged: for the
\* specifications that do not involve them
NoShell == [pc |-> "none", config |-> 0]
\* the log files of the model, by the id of their path
LogPaths == {1, 3}
NoLogCall ==
    [inst |-> 0, call |-> "none", level |-> "", msg |-> <<>>,
     pre |-> [p \in LogPaths |-> <<>>]]
NoLogs ==
    [files |-> [p \in LogPaths |-> <<>>], handlers |-> <<>>, inst |-> <<>>,
     calls |-> 0, last |-> NoLogCall]
DrawsIdle == draws = <<>>
ShellIdle == shell = NoShell
LogsIdle == logs = NoLogs
OthersIdle == DrawsIdle /\ ShellIdle /\ LogsIdle

----------------------------------------------------------------------------
(* Actions of the manager *)

NoKw == <<>>

\* the manager-visible state before a call: the file, the cached reference
\* and the field values of the cached object
Snap(m) ==
    [file |-> m.file, cache |-> m.cache,
     rec |-> IF m.cache = 0 THEN EternalGreenConfig ELSE m.heap[m.cache]]

\* the state a call leaves; the objects still referred to are the cached
\* one, the one cached before the call and the ones in keep
\* the call before this one and how it ended
Outcome == [op |-> last.op, exc |-> last.exc]
NoOutcome == [op |-> "init", exc |-> "none"]

NoSnap == [file |-> Absent, cache |-> 0, rec |-> EternalGreenConfig]

SetMgr(m, keep) ==
    /\ file' = m.file
    /\ heap' = Collect(m.heap, {m.cache, cache} \cup keep)
    /\ cache' = m.cache
    /\ by_mgr' = m.by_mgr

\* a caller builds a record and calls manager.save(record)
Save(r) ==
    /\ \E o \in {NewId(heap)} :
       \E s \in {save([Mgr EXCEPT !.heap = Alloc(heap, r)], o)} :
           /\ SetMgr(s.m, {o})
           /\ last' = [op |-> "save", exc |-> s.exc, ret |-> 0, obj |-> o,
                       kw |-> NoKw, pre |-> Snap(Mgr), mid |-> Snap(Mgr),
                       prev |-> Outcome]
    /\ UNCHANGED valVars
    /\ UNCHANGED simVars
    /\ UNCHANGED otherVars

\* manager.load()
Load ==
    /\ \E l \in {load(Mgr)} :
           /\ SetMgr(l.m, {l.ret})
           /\ last' = [op |-> "load", exc |-> l.exc, ret |-> l.ret, obj |-> 0,
                       kw |-> NoKw, pre |-> Snap(Mgr), mid |-> Snap(Mgr),
                       prev |-> Outcome]
    /\ UNCHANGED valVars
    /\ UNCHANGED simVars
    /\ UNCHANGED otherVars

\* manager.update(**kw)
Update(kw) ==
    /\ \E u \in {update(Mgr, kw)} :
           /\ SetMgr(u.m, {u.ret, u.mid.cache})
           /\ last' = [op |-> "update", exc |-> u.exc, ret |-> u.ret, obj |-> 0,
                       kw |-> kw, pre |-> Snap(Mgr), mid |-> Snap(u.mid),
                       prev |-> Outcome]
    /\ UNCHANGED valVars
    /\ UNCHANGED simVars
    /\ UNCHANGED otherVars

\* the user (or anything but the manager) rewrites or removes the file
ExternalEdit(c) ==
    /\ c # file
    /\ file' = c
    /\ by_mgr' = FALSE
    /\ last' = [op |-> "edit", exc |-> "none", ret |-> 0, obj |-> 0,
                kw |-> NoKw, pre |-> NoSnap, mid |-> NoSnap,
                prev |-> NoOutcome]
    /\ heap' = Collect(heap, {cache})
    /\ UNCHANGED cache
    /\ UNCHANGED valVars
    /\ UNCHANGED simVars
    /\ UNCHANGED otherVars

NoValidation == [exc |-> "none", errors |-> <<>>]

InitConfig ==
    /\ file \in FileChoices
    /\ heap = <<>>
    /\ cache = 0
    /\ by_mgr = FALSE
    /\ last = [op |-> "init", exc |-> "none", ret |-> 0, obj |-> 0,
               kw |-> NoKw, pre |-> NoSnap, mid |-> NoSnap,
                prev |-> NoOutcome]
    /\ vcfg = EternalGreenConfig
    /\ vout = NoValidation
    /\ SimIdle
    /\ OthersIdle

NextConfig ==
    \/ \E r \in InputRecords : Save(r)
    \/ Load
    \/ \E kw \in UpdateArgs : Update(kw)
    \/ \E c \in FileChoices : ExternalEdit(c)

SpecConfig == InitConfig /\ [][NextConfig]_vars

----------------------------------------------------------------------------
(* validate() on its own: every combination of field values, in and out    *)
(* of range and of the declared and of other types                         *)

IntervalValues == {PyInt(9), PyInt(10), PyInt(3600), PyInt(3601), PyStr(2)}
PixelValues == {PyInt(0), PyInt(1), PyInt(100), PyInt(101), PyBool(TRUE)}
FlagValues == {PyBool(FALSE), PyBool(TRUE), PyInt(1)}
PathValues == {PyStr(0), PyStr(3), PyNone}
RangeValues ==
    {PyInt(9), PyInt(10), PyInt(60), PyInt(3600), PyInt(3601), PyStr(2), PyNone}

Pending == [exc |-> "pending", errors |-> <<>>]

InitValidate ==
    /\ vcfg \in {Rec(is, mp, sm, lp, ri, lo, hi) :
                    is \in IntervalValues, mp \in PixelValues,
                    sm \in FlagValues, lp \in PathValues,
                    ri \in {PyBool(FALSE), PyBool(TRUE)},
                    lo \in RangeValues, hi \in RangeValues}
    /\ vout = Pending
    /\ file = Absent
    /\ heap = <<>>
    /\ cache = 0
    /\ by_mgr = FALSE
    /\ last = [op |-> "init", exc |-> "none", ret |-> 0, obj |-> 0,
               kw |-> NoKw, pre |-> NoSnap, mid |-> NoSnap,
               prev |-> NoOutcome]
    /\ SimIdle
    /\ OthersIdle

\* errors = vcfg.validate()
Validate ==
    /\ vout = Pending
    /\ vout' = validate(vcfg)
    /\ UNCHANGED <<vcfg, file, heap, cache, by_mgr, last>>
    /\ UNCHANGED simVars
    /\ UNCHANGED otherVars

NextValidate == Validate

SpecValidate == InitValidate /\ [][NextValidate]_vars

----------------------------------------------------------------------------
(* ActivitySimulator.start_loop on the main thread, one step per call that  *)
(* another thread or a signal handler can be interleaved with.              *)

\* Python truth of a configuration value
Truthy(x) == IF x.t = "none" THEN FALSE ELSE x.v # 0

Numeric(x) == IsInt(x) \/ IsBool(x)

\* random.randint(a, b): the values it can return; none when it raises
\* (a > b, or an argument that is not an integer)
randint(a, b) ==
    IF Numeric(a) /\ Numeric(b) /\ a.v <= b.v
    THEN {PyInt(n) : n \in a.v .. b.v}
    ELSE {}

\* the variant of _get_next_interval() that leaves out the top of the range
get_next_interval_below_max(c) ==
    IF Truthy(c.random_interval)
    THEN randint(c.interval_range_min, c.interval_range_max)
            \ {c.interval_range_max}
    ELSE {c.interval_seconds}

\* _get_next_interval(): the values it can return; none when it raises
get_next_interval(c) ==
    IF Truthy(c.random_interval)
    THEN randint(c.interval_range_min, c.interval_range_max)
    ELSE {c.interval_seconds}

\* Event.wait(timeout): the timeout has run out after `elapsed` seconds.
\* A timeout of None never runs out.
TimedOut(timeout, elapsed) == Numeric(timeout) /\ elapsed >= timeout.v

\* the configurations the simulator is built with: a fixed interval with
\* key press; silent with a random interval; and two records that load()
\* hands over unvalidated (a reversed random range, a string interval)
SimConfigs ==
    { Rec(PyInt(10), PyInt(2), PyBool(FALSE), PyStr(3), PyBool(FALSE),
          PyInt(10), PyInt(60)),
      Rec(PyInt(300), PyInt(100), PyBool(TRUE), PyStr(3), PyBool(TRUE),
          PyInt(10), PyInt(12)),
      Rec(PyInt(300), PyInt(2), PyBool(FALSE), PyStr(3), PyBool(TRUE),
          PyInt(60), PyInt(10)),
      Rec(PyStr(2), PyInt(2), PyBool(TRUE), PyStr(3), PyBool(FALSE),
          PyInt(10), PyInt(60)) }

StartPositions == { <<100, 200>>, <<500, 500>> }

\* an exception leaves start_loop's try block: the finally clause runs next
Raise(e) == [main EXCEPT !.pc = "cleanup", !.exc = e]

\* start_loop ends without running the finally clause
Leave(how, e) ==
    /\ main' = [main EXCEPT !.pc = "idle", !.exc = "none"]
    /\ obs' = [obs EXCEPT !.exit = how, !.exc = e]

OnMain(at) == main.pc = at /\ handler = "none"

\* self._running = True
StartLoop ==
    /\ OnMain("idle")
    /\ obs.exit = "none"
    /\ sim' = [sim EXCEPT !.running = TRUE]
    /\ main' = [main EXCEPT !.pc = "clear"]
    /\ UNCHANGED <<config, log_ok, sig, handler, stopper, mouse, cyc, obs>>
    /\ UNCHANGED <<cfgVars, valVars>>
    /\ UNCHANGED otherVars

\* self._stop_event.clear()
ClearEvent ==
    /\ OnMain("clear")
    /\ sim.lock = "free"
    /\ sim' = [sim EXCEPT !.flag = FALSE]
    /\ main' = [main EXCEPT !.pc = "install"]
    /\ UNCHANGED <<config, log_ok, sig, handler, stopper, mouse, cyc, obs>>
    /\ UNCHANGED <<cfgVars, valVars>>
    /\ UNCHANGED otherVars

\* signal.getsignal / signal.signal(SIGINT, self._handle_sigint)
InstallHandler ==
    /\ OnMain("install")
    /\ sim' = [sim EXCEPT !.original_sigint_handler = sig.handler]
    /\ sig' = [sig EXCEPT !.handler = "simulator", !.installs = @ + 1]
    /\ main' = [main EXCEPT !.pc = "log_start"]
    /\ UNCHANGED <<config, log_ok, handler, stopper, mouse, cyc, obs>>
    /\ UNCHANGED <<cfgVars, valVars>>
    /\ UNCHANGED otherVars

\* self.logger.log_activity(start_msg), outside the try block: the logger
\* opens its file on first use, and an OSError leaves start_loop at once
LogStart ==
    /\ OnMain("log_start")
    /\ IF sim.logger_ready \/ log_ok
       THEN /\ sim' = [sim EXCEPT !.logger_ready = TRUE]
            /\ main' = [main EXCEPT !.pc = "while"]
            /\ obs' = obs
       ELSE /\ sim' = sim
            /\ Leave("raised", "OSError")
    /\ UNCHANGED <<config, log_ok, sig, handler, stopper, mouse, cyc>>
    /\ UNCHANGED <<cfgVars, valVars>>
    /\ UNCHANGED otherVars

\* while self._running:
WhileTest ==
    /\ OnMain("while")
    /\ IF sim.running
       THEN /\ cyc.n < MaxCycles
            /\ main' = [main EXCEPT !.pc = "interval"]
       ELSE main' = [main EXCEPT !.pc = "cleanup"]
    /\ UNCHANGED <<config, log_ok, sim, sig, handler, stopper, mouse, cyc, obs>>
    /\ UNCHANGED <<cfgVars, valVars>>
    /\ UNCHANGED otherVars

\* next_interval = self._get_next_interval(), then simulate_activity begins
NextInterval ==
    /\ OnMain("interval")
    /\ \E vals \in {get_next_interval(config)} :
         IF vals = {}
         THEN /\ main' = Raise("ValueError")
              /\ cyc' = cyc
         ELSE /\ \E v \in vals :
                   main' = [main EXCEPT !.pc = "position", !.next_interval = v]
              /\ cyc' = [NoCycle EXCEPT !.n = cyc.n + 1, !.start = mouse,
                                        !.after_stop = obs.stop_requested]
    /\ UNCHANGED <<config, log_ok, sim, sig, handler, stopper, mouse, obs>>
    /\ UNCHANGED <<cfgVars, valVars>>
    /\ UNCHANGED otherVars

\* an injection call raises: control goes to simulate_activity's except
Fails(call) ==
    /\ main' = [main EXCEPT !.pc = "except"]
    /\ cyc' = [cyc EXCEPT !.failed = call]

\* original_x, original_y = pyautogui.position()
Position ==
    /\ OnMain("position")
    /\ \/ /\ main' = [main EXCEPT !.pc = "moveRel", !.original = mouse]
          /\ cyc' = cyc
       \/ Fails("position")
    /\ UNCHANGED <<config, log_ok, sim, sig, handler, stopper, mouse, obs>>
    /\ UNCHANGED <<cfgVars, valVars>>
    /\ UNCHANGED otherVars

\* pyautogui.moveRel(pixels, pixels, duration=0)
MoveRel ==
    /\ OnMain("moveRel")
    /\ \/ /\ Numeric(config.movement_pixels)
          /\ mouse' = <<mouse[1] + config.movement_pixels.v,
                        mouse[2] + config.movement_pixels.v>>
          /\ main' = [main EXCEPT !.pc = "moveTo"]
          /\ cyc' = cyc
       \/ /\ Fails("moveRel")
          /\ mouse' = mouse
    /\ UNCHANGED <<config, log_ok, sim, sig, handler, stopper, obs>>
    /\ UNCHANGED <<cfgVars, valVars>>
    /\ UNCHANGED otherVars

\* the variant of MoveTo that leaves the cursor where moveRel put it
MoveToNowhere ==
    /\ OnMain("moveTo")
    /\ \/ /\ mouse' = mouse
          /\ main' = [main EXCEPT !.pc = "press"]
          /\ cyc' = [cyc EXCEPT !.moved_back = TRUE]
       \/ /\ Fails("moveTo")
          /\ mouse' = mouse
    /\ UNCHANGED <<config, log_ok, sim, sig, handler, stopper, obs>>
    /\ UNCHANGED <<cfgVars, valVars>>
    /\ UNCHANGED otherVars

\* pyautogui.moveTo(original_x, original_y, duration=0)
MoveTo ==
    /\ OnMain("moveTo")
    /\ \/ /\ mouse' = main.original
          /\ main' = [main EXCEPT !.pc = "press"]
          /\ cyc' = [cyc EXCEPT !.moved_back = TRUE]
       \/ /\ Fails("moveTo")
          /\ mouse' = mouse
    /\ UNCHANGED <<config, log_ok, sim, sig, handler, stopper, obs>>
    /\ UNCHANGED <<cfgVars, valVars>>
    /\ UNCHANGED otherVars

\* the variant of PressKey that presses whatever silent_mode says
PressKeyAlways ==
    /\ OnMain("press")
    /\ \/ /\ main' = [main EXCEPT !.pc = "log_activity"]
          /\ cyc' = [cyc EXCEPT !.press_calls = @ + 1]
       \/ /\ main' = [main EXCEPT !.pc = "except"]
          /\ cyc' = [cyc EXCEPT !.press_calls = @ + 1, !.failed = "press"]
    /\ UNCHANGED <<config, log_ok, sim, sig, handler, stopper, mouse, obs>>
    /\ UNCHANGED <<cfgVars, valVars>>
    /\ UNCHANGED otherVars

\* if not self.config.silent_mode: self.press_key()
PressKey ==
    /\ OnMain("press")
    /\ IF Truthy(config.silent_mode)
       THEN /\ main' = [main EXCEPT !.pc = "log_activity"]
            /\ cyc' = cyc
       ELSE \/ /\ main' = [main EXCEPT !.pc = "log_activity"]
               /\ cyc' = [cyc EXCEPT !.press_calls = @ + 1]
            \/ /\ main' = [main EXCEPT !.pc = "except"]
               /\ cyc' = [cyc EXCEPT !.press_calls = @ + 1, !.failed = "press"]
    /\ UNCHANGED <<config, log_ok, sim, sig, handler, stopper, mouse, obs>>
    /\ UNCHANGED <<cfgVars, valVars>>
    /\ UNCHANGED otherVars

\* self.logger.log_activity(message); return True
LogActivity ==
    /\ OnMain("log_activity")
    /\ cyc' = [cyc EXCEPT !.infos = @ + 1, !.result = "True"]
    /\ main' = [main EXCEPT !.pc = "wait"]
    /\ UNCHANGED <<config, log_ok, sim, sig, handler, stopper, mouse, obs>>
    /\ UNCHANGED <<cfgVars, valVars>>
    /\ UNCHANGED otherVars

\* the variant of Except that gives the loop up on a failed cycle
ExceptStops ==
    /\ OnMain("except")
    /\ cyc' = [cyc EXCEPT !.errors = @ + 1, !.result = "False"]
    /\ main' = [main EXCEPT !.pc = "wait"]
    /\ sim' = [sim EXCEPT !.running = FALSE]
    /\ UNCHANGED <<config, log_ok, sig, handler, stopper, mouse, obs>>
    /\ UNCHANGED <<cfgVars, valVars>>
    /\ UNCHANGED otherVars

\* except Exception as e: self.logger.log_error(error_msg); return False
Except ==
    /\ OnMain("except")
    /\ cyc' = [cyc EXCEPT !.errors = @ + 1, !.result = "False"]
    /\ main' = [main EXCEPT !.pc = "wait"]
    /\ sim' = sim
    /\ UNCHANGED <<config, log_ok, sig, handler, stopper, mouse, obs>>
    /\ UNCHANGED <<cfgVars, valVars>>
    /\ UNCHANGED otherVars

\* self._stop_event.wait(timeout=next_interval): Event.wait takes the
\* event's internal lock (with self._cond:)
WaitEnter ==
    /\ OnMain("wait")
    /\ sim.lock = "free"
    /\ sim' = [sim EXCEPT !.lock = "main"]
    /\ main' = [main EXCEPT !.pc = "wait_check"]
    /\ UNCHANGED <<config, log_ok, sig, handler, stopper, mouse, cyc, obs>>
    /\ UNCHANGED <<cfgVars, valVars>>
    /\ UNCHANGED otherVars

\* Event.wait under the lock: the flag is set (return True: break), or
\* Condition.wait(timeout) gives the lock up and blocks; a timeout that is
\* not a number raises TypeError out of the try block
WaitCheck ==
    /\ OnMain("wait_check")
    /\ IF sim.flag
       THEN /\ sim' = [sim EXCEPT !.lock = "free"]
            /\ main' = [main EXCEPT !.pc = "cleanup"]
       ELSE IF main.next_interval.t = "str"
       THEN /\ sim' = [sim EXCEPT !.lock = "free"]
            /\ main' = Raise("TypeError")
       ELSE /\ sim' = [sim EXCEPT !.lock = "free", !.notified = FALSE]
            /\ main' = [main EXCEPT !.pc = "wait_block", !.elapsed = 0,
                                    !.gotit = FALSE]
    /\ UNCHANGED <<config, log_ok, sig, handler, stopper, mouse, cyc, obs>>
    /\ UNCHANGED <<cfgVars, valVars>>
    /\ UNCHANGED otherVars

\* Condition.wait returns: notified by set(), or the timeout has run out;
\* it takes the event's lock again
WaitWake ==
    /\ OnMain("wait_block")
    /\ sim.lock = "free"
    /\ \/ /\ sim.notified
          /\ main' = [main EXCEPT !.pc = "wait_exit", !.gotit = TRUE]
       \/ /\ TimedOut(main.next_interval, main.elapsed)
          /\ main' = [main EXCEPT !.pc = "wait_exit", !.gotit = FALSE]
    /\ sim' = [sim EXCEPT !.lock = "main"]
    /\ UNCHANGED <<config, log_ok, sig, handler, stopper, mouse, cyc, obs>>
    /\ UNCHANGED <<cfgVars, valVars>>
    /\ UNCHANGED otherVars

\* Event.wait leaves the with block and returns: if ...wait(...): break
WaitExit ==
    /\ OnMain("wait_exit")
    /\ sim' = [sim EXCEPT !.lock = "free"]
    /\ main' = [main EXCEPT !.pc = IF main.gotit THEN "cleanup" ELSE "while"]
    /\ UNCHANGED <<config, log_ok, sig, handler, stopper, mouse, cyc, obs>>
    /\ UNCHANGED <<cfgVars, valVars>>
    /\ UNCHANGED otherVars

\* finally: self._cleanup(); then start_loop returns, or the exception that
\* left the try block goes on to the caller
Cleanup ==
    /\ OnMain("cleanup")
    /\ sig' = IF sim.original_sigint_handler # "none"
               THEN [sig EXCEPT !.handler = sim.original_sigint_handler,
                                !.restores = @ + 1]
               ELSE sig
    /\ sim' = [sim EXCEPT !.original_sigint_handler = "none"]
    /\ Leave(IF main.exc = "none" THEN "returned" ELSE "raised", main.exc)
    /\ UNCHANGED <<config, log_ok, handler, stopper, mouse, cyc>>
    /\ UNCHANGED <<cfgVars, valVars>>
    /\ UNCHANGED otherVars

\* start_loop after its first statement
LoopStep ==
    \/ ClearEvent \/ InstallHandler \/ LogStart
    \/ WhileTest \/ NextInterval
    \/ Position \/ MoveRel \/ MoveTo \/ PressKey \/ LogActivity \/ Except
    \/ WaitEnter \/ WaitCheck \/ WaitWake \/ WaitExit
    \/ Cleanup

MainStep == StartLoop \/ LoopStep

----------------------------------------------------------------------------
(* stop(), run by _handle_sigint on the main thread (the main thread's own  *)
(* code stands still until the handler returns) or by another thread        *)

\* Event.set() under the event's lock: set the flag, wake the waiter
EventSet == [sim EXCEPT !.flag = TRUE,
                        !.notified = (main.pc = "wait_block")]

\* a SIGINT is delivered to the process; Python runs the handler on the
\* main thread, between two of its bytecodes
Sigint ==
    /\ main.pc # "idle"
    /\ handler = "none"
    /\ sig.count < MaxSigints
    /\ sig' = [sig EXCEPT !.count = @ + 1]
    /\ IF sig.handler = "simulator"
       THEN /\ handler' = "stop_running"
            /\ obs' = [obs EXCEPT !.stop_requested = TRUE]
            /\ main' = main
       ELSE \* the default handler raises KeyboardInterrupt, here before
            \* the handler is installed, so outside the try block
            /\ handler' = handler
            /\ Leave("raised", "KeyboardInterrupt")
    /\ UNCHANGED <<config, log_ok, sim, stopper, mouse, cyc>>
    /\ UNCHANGED <<cfgVars, valVars>>
    /\ UNCHANGED otherVars

\* _handle_sigint: self.stop(): self._running = False
HandlerStopRunning ==
    /\ handler = "stop_running"
    /\ sim' = [sim EXCEPT !.running = FALSE]
    /\ handler' = "stop_set"
    /\ UNCHANGED <<config, log_ok, sig, main, stopper, mouse, cyc, obs>>
    /\ UNCHANGED <<cfgVars, valVars>>
    /\ UNCHANGED otherVars

\* _handle_sigint: self._stop_event.set(): with self._cond: takes the
\* event's lock, which is not reentrant: the handler blocks while the main
\* thread, which cannot go on before the handler returns, holds it
HandlerStopSet ==
    /\ handler = "stop_set"
    /\ sim.lock = "free"
    /\ sim' = EventSet
    /\ handler' = "stop_log"
    /\ UNCHANGED <<config, log_ok, sig, main, stopper, mouse, cyc, obs>>
    /\ UNCHANGED <<cfgVars, valVars>>
    /\ UNCHANGED otherVars

\* _handle_sigint: self.logger.log_shutdown(), then the handler returns.
\* The logger is not ready only before start_loop's first log call, which
\* is outside the try block: the OSError leaves start_loop.
HandlerStopLog ==
    /\ handler = "stop_log"
    /\ handler' = "none"
    /\ IF sim.logger_ready \/ log_ok
       THEN /\ sim' = [sim EXCEPT !.logger_ready = TRUE]
            /\ obs' = [obs EXCEPT !.shutdowns = @ + 1]
            /\ main' = main
       ELSE /\ sim' = sim
            /\ Leave("raised", "OSError")
    /\ UNCHANGED <<config, log_ok, sig, stopper, mouse, cyc>>
    /\ UNCHANGED <<cfgVars, valVars>>
    /\ UNCHANGED otherVars

HandlerStep == HandlerStopRunning \/ HandlerStopSet \/ HandlerStopLog

\* another thread calls stop() while start_loop runs
CallStop ==
    /\ stopper = "idle"
    /\ main.pc # "idle"
    /\ stopper' = "stop_running"
    /\ obs' = [obs EXCEPT !.stop_requested = TRUE]
    /\ UNCHANGED <<config, log_ok, sim, sig, main, handler, mouse, cyc>>
    /\ UNCHANGED <<cfgVars, valVars>>
    /\ UNCHANGED otherVars

\* stop(): self._running = False
StopperStopRunning ==
    /\ stopper = "stop_running"
    /\ sim' = [sim EXCEPT !.running = FALSE]
    /\ stopper' = "stop_set"
    /\ UNCHANGED <<config, log_ok, sig, main, handler, mouse, cyc, obs>>
    /\ UNCHANGED <<cfgVars, valVars>>
    /\ UNCHANGED otherVars

\* stop(): self._stop_event.set(), once the event's lock is free
StopperStopSet ==
    /\ stopper = "stop_set"
    /\ sim.lock = "free"
    /\ sim' = EventSet
    /\ stopper' = "stop_log"
    /\ UNCHANGED <<config, log_ok, sig, main, handler, mouse, cyc, obs>>
    /\ UNCHANGED <<cfgVars, valVars>>
    /\ UNCHANGED otherVars

\* stop(): self.logger.log_shutdown(); an OSError ends the thread only
StopperStopLog ==
    /\ stopper = "stop_log"
    /\ stopper' = "done"
    /\ IF sim.logger_ready \/ log_ok
       THEN /\ sim' = [sim EXCEPT !.logger_ready = TRUE]
            /\ obs' = [obs EXCEPT !.shutdowns = @ + 1]
       ELSE UNCHANGED <<sim, obs>>
    /\ UNCHANGED <<config, log_ok, sig, main, handler, mouse, cyc>>
    /\ UNCHANGED <<cfgVars, valVars>>
    /\ UNCHANGED otherVars

StopperStep == StopperStopRunning \/ StopperStopSet \/ StopperStopLog

\* time passes while the main thread is blocked in the wait
Tick ==
    /\ main.pc = "wait_block"
    /\ Numeric(main.next_interval)
    /\ main.elapsed < main.next_interval.v
    /\ main' = [main EXCEPT !.elapsed =
                   IF @ + TickSeconds < main.next_interval.v
                   THEN @ + TickSeconds ELSE main.next_interval.v]
    /\ UNCHANGED <<config, log_ok, sim, sig, handler, stopper, mouse, cyc, obs>>
    /\ UNCHANGED <<cfgVars, valVars>>
    /\ UNCHANGED otherVars

InitSim ==
    /\ config \in SimConfigs
    /\ log_ok \in BOOLEAN
    /\ mouse \in StartPositions
    /\ sim = NewSim
    /\ sig = NewSig
    /\ main = NewMain
    /\ handler = "none"
    /\ stopper = "idle"
    /\ cyc = NoCycle
    /\ obs = NewObs
    /\ file = Absent
    /\ heap = <<>>
    /\ cache = 0
    /\ by_mgr = FALSE
    /\ last = [op |-> "init", exc |-> "none", ret |-> 0, obj |-> 0,
               kw |-> NoKw, pre |-> NoSnap, mid |-> NoSnap,
               prev |-> NoOutcome]
    /\ vcfg = EternalGreenConfig
    /\ vout = NoValidation
    /\ OthersIdle

NextSim ==
    \/ MainStep
    \/ HandlerStep
    \/ StopperStep
    \/ Sigint
    \/ CallStop
    \/ Tick

SpecSim == InitSim /\ [][NextSim]_vars

\* The scheduler runs every thread that can run: the main thread, a signal
\* handler once invoked, and a thread that has called stop().  Nothing
\* obliges a SIGINT, a stop() call or the passing of time.
SpecSimLive ==
    /\ InitSim
    /\ [][NextSim]_vars
    /\ WF_vars(MainStep)
    /\ WF_vars(HandlerStep)
    /\ WF_vars(StopperStep)

----------------------------------------------------------------------------
(* start_loop called again on the same simulator, once it has returned.    *)
(* A thread that called stop() during the earlier run goes on where it was. *)

MaxRuns == 2

\* start_loop again: self._running = True
Restart ==
    /\ OnMain("idle")
    /\ obs.exit = "returned"
    /\ obs.run < MaxRuns
    /\ sim' = [sim EXCEPT !.running = TRUE]
    /\ main' = [main EXCEPT !.pc = "clear"]
    /\ cyc' = NoCycle
    /\ obs' = [obs EXCEPT !.run = @ + 1, !.exit = "none", !.exc = "none",
                          !.stop_requested = FALSE]
    /\ UNCHANGED <<config, log_ok, sig, handler, stopper, mouse>>
    /\ UNCHANGED <<cfgVars, valVars>>
    /\ UNCHANGED otherVars

InitRestart ==
    /\ InitSim
    /\ log_ok = TRUE
    /\ mouse = <<100, 200>>

NextRestart ==
    \/ MainStep
    \/ Restart
    \/ HandlerStep
    \/ StopperStep
    \/ Sigint
    \/ CallStop
    \/ Tick

SpecRestart == InitRestart /\ [][NextRestart]_vars

----------------------------------------------------------------------------
(* _get_next_interval() on its own: repeated calls on one configuration     *)

\* the manager and validate() untouched, for the specifications below
ManagerIdle ==
    /\ file = Absent
    /\ heap = <<>>
    /\ cache = 0
    /\ by_mgr = FALSE
    /\ last = [op |-> "init", exc |-> "none", ret |-> 0, obj |-> 0,
               kw |-> NoKw, pre |-> NoSnap, mid |-> NoSnap,
               prev |-> NoOutcome]
    /\ vcfg = EternalGreenConfig
    /\ vout = NoValidation

\* the loop not started
LoopIdle ==
    /\ sim = NewSim
    /\ sig = NewSig
    /\ main = NewMain
    /\ handler = "none"
    /\ stopper = "idle"
    /\ cyc = NoCycle
    /\ obs = NewObs

MaxDraws == 3

RangeEnds == {PyInt(10), PyInt(11), PyInt(12), PyInt(13)}

\* fixed and random intervals; ranges in order, of one value, and reversed
IntervalConfigs ==
    { Rec(is, PyInt(2), PyBool(FALSE), PyStr(3), ri, lo, hi) :
        is \in {PyInt(10), PyInt(300)},
        ri \in {PyBool(FALSE), PyBool(TRUE)},
        lo \in RangeEnds, hi \in RangeEnds }

ValueError == [t |-> "ValueError", v |-> 0]

\* next_interval = self._get_next_interval()
Draw ==
    /\ Len(draws) < MaxDraws
    /\ \E vals \in {get_next_interval(config)} :
         /\ vals # {}
         /\ \E v \in vals : draws' = Append(draws, v)
    /\ UNCHANGED <<cfgVars, valVars, simVars, shell, logs>>

\* self._get_next_interval() raises: random.randint on a reversed range
DrawRaises ==
    /\ Len(draws) < MaxDraws
    /\ get_next_interval(config) = {}
    /\ draws' = Append(draws, ValueError)
    /\ UNCHANGED <<cfgVars, valVars, simVars, shell, logs>>

InitInterval ==
    /\ config \in IntervalConfigs
    /\ draws = <<>>
    /\ log_ok = TRUE
    /\ mouse = <<0, 0>>
    /\ LoopIdle
    /\ ManagerIdle
    /\ ShellIdle
    /\ LogsIdle

NextDraw == Draw \/ DrawRaises

SpecInterval == InitInterval /\ [][NextDraw]_vars

----------------------------------------------------------------------------
(* CLIInterface: the interactive shell.  What the user types is a sequence  *)
(* of characters; str.strip() and int() are computed on it.                 *)

RECURSIVE LStrip(_), RStrip(_), Digits2Int(_)
LStrip(t) == IF t # <<>> /\ Head(t) = " " THEN LStrip(Tail(t)) ELSE t
RStrip(t) ==
    IF t # <<>> /\ t[Len(t)] = " " THEN RStrip(SubSeq(t, 1, Len(t) - 1)) ELSE t
\* user_input = input(...).strip()
Strip(t) == RStrip(LStrip(t))

DigitValue ==
    [ch \in {"0", "1", "2", "3", "4", "5", "6", "7", "8", "9"} |->
        CASE ch = "0" -> 0 [] ch = "1" -> 1 [] ch = "2" -> 2 [] ch = "3" -> 3
          [] ch = "4" -> 4 [] ch = "5" -> 5 [] ch = "6" -> 6 [] ch = "7" -> 7
          [] ch = "8" -> 8 [] ch = "9" -> 9]
Unsigned(t) == IF t # <<>> /\ Head(t) \in {"-", "+"} THEN Tail(t) ELSE t
\* int(user_input) accepts a sign followed by digits; anything else raises
\* ValueError
IsIntText(t) ==
    /\ Unsigned(t) # <<>>
    /\ \A i \in DOMAIN Unsigned(t) : Unsigned(t)[i] \in DOMAIN DigitValue
Digits2Int(d) ==
    IF d = <<>> THEN 0
    ELSE 10 * Digits2Int(SubSeq(d, 1, Len(d) - 1)) + DigitValue[d[Len(d)]]
IntOf(t) ==
    IF t # <<>> /\ Head(t) = "-" THEN 0 - Digits2Int(Unsigned(t))
    ELSE Digits2Int(Unsigned(t))

\* the path strings a user types, as the model's string values
PathOf(t) ==
    CASE t = <<"a", ".", "l", "o", "g">> -> PyStr(1)
      [] t = <<"a", "b", "c">> -> PyStr(2)

NumericParams ==
    {"interval_seconds", "movement_pixels",
     "interval_range_min", "interval_range_max"}
ToggleParams == {"silent_mode", "random_interval"}

\* The shell's state as the edit methods see it: the manager, the shell's
\* own record (an object of the manager's heap) and whether the logger has
\* its file open.  An edit returns that state with its result (ret), and
\* whether it wrote a config-change entry to the log.
ShellState ==
    [m |-> Mgr, cfg |-> shell.config, ready |-> sim.logger_ready]
Returned(st, ret, logged) ==
    [m |-> st.m, cfg |-> st.cfg, ready |-> st.ready,
     ret |-> ret, logged |-> logged]

\* self.logger.log_config_change(...); return True.  The logger opens its
\* file on first use: an OSError goes to except Exception: return False.
LogChange(st) ==
    IF st.ready \/ log_ok
    THEN Returned([st EXCEPT !.ready = TRUE], TRUE, TRUE)
    ELSE Returned(st, FALSE, FALSE)

\* the variant of Commit that writes the log entry whatever update() did
CommitLoggingFirst(st, u) ==
    IF u.exc # "none"
    THEN Returned([st EXCEPT !.m = u.m, !.ready = LogChange(st).ready],
                  FALSE, LogChange(st).logged)
    ELSE LogChange([st EXCEPT !.m = u.m, !.cfg = u.ret])

\* self._config = self.config_manager.update(**kw), u being what update
\* did, then the log entry; an exception of update goes to the except
\* clauses: return False
Commit(st, u) ==
    IF u.exc # "none"
    THEN Returned([st EXCEPT !.m = u.m], FALSE, FALSE)
    ELSE LogChange([st EXCEPT !.m = u.m, !.cfg = u.ret])

\* an edit method up to its call of update: the keyword arguments of the
\* call, or no call (return False)
NoCall == [call |-> FALSE, kw |-> NoKw]
Call(kw) == [call |-> TRUE, kw |-> kw]

\* edit_config(param), the user typing `text` when asked for a value
edit_config(st, param, text) ==
    CASE param \in ToggleParams ->
            Call(param :> PyBool(~Truthy(st.m.heap[st.cfg][param])))
      [] param \notin ToggleParams /\ Strip(text) = <<>> -> NoCall
      [] param \in NumericParams /\ Strip(text) # <<>>
            /\ ~IsIntText(Strip(text)) -> NoCall
      [] param \in NumericParams /\ Strip(text) # <<>>
            /\ IsIntText(Strip(text)) ->
            Call(param :> PyInt(IntOf(Strip(text))))
      [] OTHER -> Call(param :> PathOf(Strip(text)))

\* edit_interval_range(), the user typing min_text and then max_text
edit_interval_range(st, min_text, max_text) ==
    CASE Strip(min_text) = <<>> -> NoCall
      [] Strip(min_text) # <<>> /\ Strip(max_text) = <<>> -> NoCall
      [] Strip(min_text) # <<>> /\ Strip(max_text) # <<>>
            /\ ~(IsIntText(Strip(min_text)) /\ IsIntText(Strip(max_text))) ->
            NoCall
      [] OTHER ->
            Call(("interval_range_min" :> PyInt(IntOf(Strip(min_text))))
                 @@ ("interval_range_max" :> PyInt(IntOf(Strip(max_text)))))

MaxEdits == 1

\* what the user types at a prompt for a number: nothing, blanks, letters,
\* numbers below, inside and above the ranges, with spaces or a sign
NumberInputs ==
    { <<>>, <<" ">>, <<"a", "b", "c">>, <<"5">>, <<"1", "5">>,
      <<" ", "2", "0", " ">>, <<"-", "1">>, <<"4", "0", "0", "0">> }
\* what the user types at the two prompts for the random range
RangeInputs ==
    { << <<>>, <<"1", "5">> >>,
      << <<"1", "5">>, <<" ">> >>,
      << <<"a", "b", "c">>, <<"1", "5">> >>,
      << <<"1", "5">>, <<" ", "2", "0", " ">> >>,
      << <<" ", "2", "0", " ">>, <<"1", "5">> >>,
      << <<"5">>, <<"1", "5">> >> }
PathInputs == { <<>>, <<" ">>, <<" ", "a", "b", "c">>, <<"a", ".", "l", "o", "g">> }

\* the config files the program starts on: a valid partial record, and two
\* records load() accepts unvalidated (an interval below the minimum, a
\* reversed random range)
CliFiles ==
    { JsonObject("interval_seconds" :> ToJson(PyInt(10))),
      JsonObject("interval_seconds" :> ToJson(PyInt(5))),
      JsonObject(("random_interval" :> ToJson(PyBool(TRUE)))
                 @@ ("interval_range_min" :> ToJson(PyInt(60)))
                 @@ ("interval_range_max" :> ToJson(PyInt(10)))) }

\* the menu choices that edit one parameter through edit_config
EditChoices ==
    ("2" :> "interval_seconds") @@ ("3" :> "movement_pixels")
    @@ ("4" :> "silent_mode") @@ ("5" :> "log_file_path")
    @@ ("6" :> "random_interval")

InputsFor(param) ==
    IF param \in ToggleParams THEN {<<>>}
    ELSE IF param \in NumericParams THEN NumberInputs
    ELSE PathInputs

\* what the shell held before the choice it handled last
ShellSnap ==
    [file |-> file, cache |-> cache, mrec |-> heap[cache],
     cfg |-> shell.config, rec |-> heap[shell.config]]
NoShellSnap ==
    [file |-> NoDoc, cache |-> 0, mrec |-> <<>>, cfg |-> 0, rec |-> <<>>]
\* the choice handled last: the texts typed, what the edit method returned
\* (ret), what handle_input returned (cont)
NoLast ==
    [choice |-> "", text |-> <<>>, text2 |-> <<>>, ret |-> FALSE,
     cont |-> TRUE, logged |-> FALSE, pre |-> NoShellSnap]
NewShell ==
    [pc |-> "start", config |-> 0, edits |-> 0, cause |-> "none",
     last |-> NoLast]

AtMenu == shell.pc = "menu" /\ main.pc = "idle"

\* main(): config_manager.load(), ActivityLogger, ActivitySimulator(config,
\* logger), CLIInterface(...).run(): self._config = config_manager.load()
Startup ==
    /\ shell.pc = "start"
    /\ \E l1 \in {load(Mgr)} :
         IF l1.exc # "none"
         THEN /\ shell' = [shell EXCEPT !.pc = "crashed", !.cause = l1.exc]
              /\ UNCHANGED <<file, heap, cache, by_mgr, config>>
         ELSE \E l2 \in {load(l1.m)} :
              /\ config' = l1.m.heap[l1.ret]
              /\ file' = l2.m.file
              /\ cache' = l2.m.cache
              /\ by_mgr' = l2.m.by_mgr
              /\ heap' = Collect(l2.m.heap, {l2.m.cache})
              /\ shell' = [shell EXCEPT !.pc = "menu", !.config = l2.ret]
    /\ UNCHANGED <<last, valVars, log_ok, sim, sig, main, handler, stopper,
                   mouse, cyc, obs, draws, logs>>

\* the state an edit method leaves
Edited(r, choice, text, text2) ==
    /\ file' = r.m.file
    /\ cache' = r.m.cache
    /\ by_mgr' = r.m.by_mgr
    /\ heap' = Collect(r.m.heap, {r.m.cache, r.cfg})
    /\ sim' = [sim EXCEPT !.logger_ready = r.ready]
    /\ shell' = [shell EXCEPT
                   !.config = r.cfg,
                   !.edits = IF r.m.cache # cache THEN @ + 1 ELSE @,
                   !.last = [choice |-> choice, text |-> text,
                             text2 |-> text2, ret |-> r.ret, cont |-> TRUE,
                             logged |-> r.logged, pre |-> ShellSnap]]
    /\ UNCHANGED <<last, valVars, config, log_ok, sig, main, handler,
                   stopper, mouse, cyc, obs, draws, logs>>

\* handle_input("2".."6"): self.edit_config(param)
Edit(choice, text) ==
    /\ AtMenu
    /\ shell.edits < MaxEdits
    /\ \E st \in {ShellState} :
       \E e \in {edit_config(st, EditChoices[choice], text)} :
         IF e.call
         THEN \E u \in {update(st.m, e.kw)} :
              \E r \in {Commit(st, u)} : Edited(r, choice, text, <<>>)
         ELSE \E r \in {Returned(st, FALSE, FALSE)} :
                Edited(r, choice, text, <<>>)

\* handle_input("7"): self.edit_interval_range()
EditRange(min_text, max_text) ==
    /\ AtMenu
    /\ shell.edits < MaxEdits
    /\ \E st \in {ShellState} :
       \E e \in {edit_interval_range(st, min_text, max_text)} :
         IF e.call
         THEN \E u \in {update(st.m, e.kw)} :
              \E r \in {Commit(st, u)} : Edited(r, "7", min_text, max_text)
         ELSE \E r \in {Returned(st, FALSE, FALSE)} :
                Edited(r, "7", min_text, max_text)

\* handle_input of a choice that changes nothing: "1" (display_config) or
\* a choice that is not on the menu
Handled(choice) == [NoLast EXCEPT !.choice = choice, !.pre = ShellSnap]
View ==
    /\ AtMenu
    /\ \E choice \in {"1", "0"} :
         shell' = [shell EXCEPT !.last = Handled(choice)]
    /\ UNCHANGED <<cfgVars, valVars, simVars, draws, logs>>

\* handle_input("8"): _start_simulator(): the simulator main() built is
\* there already; self.simulator.start_loop(): self._running = True
Start ==
    /\ AtMenu
    /\ obs.exit = "none"
    /\ shell' = [shell EXCEPT !.pc = "loop", !.last = Handled("8")]
    /\ sim' = [sim EXCEPT !.running = TRUE]
    /\ main' = [main EXCEPT !.pc = "clear"]
    /\ UNCHANGED <<cfgVars, valVars, config, log_ok, sig, handler, stopper,
                   mouse, cyc, obs, draws, logs>>

\* start_loop has ended: _start_simulator catches KeyboardInterrupt only;
\* any other exception goes through handle_input and run() to the caller
LoopEnds ==
    /\ shell.pc = "loop"
    /\ main.pc = "idle"
    /\ obs.exit # "none"
    /\ shell' = IF obs.exit = "returned" \/ obs.exc = "KeyboardInterrupt"
                THEN [shell EXCEPT !.pc = "menu"]
                ELSE [shell EXCEPT !.pc = "crashed", !.cause = obs.exc]
    /\ UNCHANGED <<cfgVars, valVars, simVars, draws, logs>>

\* handle_input("9") returns False; or input() raises KeyboardInterrupt or
\* EOFError at the menu prompt, or KeyboardInterrupt at the prompt of an
\* edit: run() ends
Exit ==
    /\ AtMenu
    /\ \E why \in {"9", "KeyboardInterrupt", "EOFError"} :
         shell' = [shell EXCEPT
                     !.pc = "exited", !.cause = why,
                     !.last = [Handled(why) EXCEPT !.cont = FALSE]]
    /\ UNCHANGED <<cfgVars, valVars, simVars, draws, logs>>

InitCli ==
    /\ file \in CliFiles
    /\ heap = <<>>
    /\ cache = 0
    /\ by_mgr = FALSE
    /\ last = [op |-> "init", exc |-> "none", ret |-> 0, obj |-> 0,
               kw |-> NoKw, pre |-> NoSnap, mid |-> NoSnap,
               prev |-> NoOutcome]
    /\ vcfg = EternalGreenConfig
    /\ vout = NoValidation
    /\ config = EternalGreenConfig
    /\ log_ok \in BOOLEAN
    /\ mouse = <<100, 200>>
    /\ LoopIdle
    /\ DrawsIdle
    /\ LogsIdle
    /\ shell = NewShell

\* the shell as long as the loop is not started: the menu and its edits
NextMenu ==
    \/ Startup
    \/ \E choice \in DOMAIN EditChoices :
         \E text \in InputsFor(EditChoices[choice]) : Edit(choice, text)
    \/ \E texts \in RangeInputs : EditRange(texts[1], texts[2])
    \/ View
    \/ Exit

SpecMenu == InitCli /\ [][NextMenu]_vars

\* the shell, and the loop it starts: the loop's steps on the main thread,
\* SIGINT and its handler, the clock.  Nothing in the program calls stop()
\* from another thread.
NextCli ==
    \/ Startup
    \/ \E choice \in DOMAIN EditChoices :
         \E text \in InputsFor(EditChoices[choice]) : Edit(choice, text)
    \/ \E texts \in RangeInputs : EditRange(texts[1], texts[2])
    \/ View
    \/ Start
    \/ LoopEnds
    \/ Exit
    \/ LoopStep
    \/ HandlerStep
    \/ Sigint
    \/ Tick

SpecCli == InitCli /\ [][NextCli]_vars

\* The main thread runs when it can: the loop's steps, a signal handler
\* once invoked, the return from start_loop to the shell.  Nothing obliges
\* the user to choose or to interrupt, nor time to pass.
SpecCliLive ==
    /\ InitCli
    /\ [][NextCli]_vars
    /\ WF_vars(LoopStep)
    /\ WF_vars(HandlerStep)
    /\ WF_vars(LoopEnds)

----------------------------------------------------------------------------
(* The logger: logging.getLogger("eternal_green") is one object for the    *)
(* whole process, its handler list is process-wide state; an ActivityLogger *)
(* holds a path and, once used, a reference to that one object.  A log file *)
(* is the sequence of its lines; a message is a sequence of pieces of text, *)
(* one of which may be a line break.                                        *)

MaxLoggers == 2
MaxLogCalls == 3

LineBreak == "\n"

\* message texts handed to the logging calls, and values handed to
\* log_config_change: without and with a line break
Messages == {<<"x">>, <<"x", LineBreak, "y">>}

\* a line of a log file: with its head "[timestamp] [LEVEL] [component] "
\* or without one; by is the ActivityLogger through which it was logged
\* (0: the line was there before)
HeadedLine(level, text, by) ==
    [head |-> TRUE, level |-> level, name |-> "eternal_green",
     text |-> text, by |-> by]
BareLine(text, by) ==
    [head |-> FALSE, level |-> "", name |-> "", text |-> text, by |-> by]
OldLine == HeadedLine("INFO", <<"o">>, 0)

\* the pieces of s before its first line break, and those after it
RECURSIVE UpToBreak(_)
UpToBreak(s) ==
    IF s = <<>> \/ Head(s) = LineBreak THEN <<>>
    ELSE <<Head(s)>> \o UpToBreak(Tail(s))
AfterBreak(s) == SubSeq(s, Len(UpToBreak(s)) + 2, Len(s))
HasBreak(s) == Len(UpToBreak(s)) < Len(s)

\* the lines of a text that has no head
RECURSIVE BareLines(_, _)
BareLines(s, by) ==
    IF HasBreak(s)
    THEN <<BareLine(UpToBreak(s), by)>> \o BareLines(AfterBreak(s), by)
    ELSE <<BareLine(s, by)>>

\* Formatter.format and StreamHandler.emit: the head, the message and a
\* line terminator, written as they are
format(level, msg, by) ==
    IF HasBreak(msg)
    THEN <<HeadedLine(level, UpToBreak(msg), by)>>
         \o BareLines(AfterBreak(msg), by)
    ELSE <<HeadedLine(level, msg, by)>>

\* Logger.handle: every handler of the logger appends the entry to its file
RECURSIVE callHandlers(_, _, _)
callHandlers(files, handlers, lines) ==
    IF handlers = <<>> THEN files
    ELSE callHandlers([files EXCEPT ![Head(handlers)] = @ \o lines],
                      Tail(handlers), lines)

\* setup_logger(log_file_path): the handler list of the process's one
\* logger is cleared and one FileHandler, opened for appending, is added
setup_logger(l, path) == [l EXCEPT !.handlers = <<path>>]

\* ActivityLogger.logger: set up on first use
logger(l, i) ==
    IF l.inst[i].ready THEN l
    ELSE [setup_logger(l, l.inst[i].path) EXCEPT !.inst[i].ready = TRUE]

\* ActivityLogger(log_file_path)
ActivityLogger(path) ==
    /\ Len(logs.inst) < MaxLoggers
    /\ logs' = [logs EXCEPT
                  !.inst = Append(@, [path |-> path, ready |-> FALSE])]
    /\ UNCHANGED <<cfgVars, valVars, simVars, draws, shell>>

\* a logging call through instance i: self.logger.info / warning / error
Logs(i, call, level, msg) ==
    /\ i <= Len(logs.inst)
    /\ logs.calls < MaxLogCalls
    /\ \E l \in {logger(logs, i)} :
       \E f \in {callHandlers(l.files, l.handlers, format(level, msg, i))} :
           logs' = [l EXCEPT !.files = f,
                             !.calls = @ + 1,
                             !.last = [inst |-> i, call |-> call,
                                       level |-> level, msg |-> msg,
                                       pre |-> logs.files]]

log_activity(i, message) ==
    /\ Logs(i, "log_activity", "INFO", message)
    /\ UNCHANGED <<cfgVars, valVars, simVars, draws, shell>>
log_error(i, message) ==
    /\ Logs(i, "log_error", "ERROR", message)
    /\ UNCHANGED <<cfgVars, valVars, simVars, draws, shell>>
log_warning(i, message) ==
    /\ Logs(i, "log_warning", "WARNING", message)
    /\ UNCHANGED <<cfgVars, valVars, simVars, draws, shell>>

\* f"Configuration updated: {param} {old_value} -> {new_value}"
ConfigChangeText(param, old_value, new_value) ==
    <<"Configuration updated: ", param, " ">> \o old_value
    \o <<" -> ">> \o new_value

log_config_change(i, old_value, new_value) ==
    /\ Logs(i, "log_config_change", "INFO",
            ConfigChangeText("log_file_path", old_value, new_value))
    /\ UNCHANGED <<cfgVars, valVars, simVars, draws, shell>>

log_shutdown(i) ==
    /\ Logs(i, "log_shutdown", "INFO", <<"Graceful shutdown initiated">>)
    /\ UNCHANGED <<cfgVars, valVars, simVars, draws, shell>>

\* a process that has made no ActivityLogger yet; each log file is empty or
\* holds a line of an earlier run
InitLog ==
    /\ logs \in {[NoLogs EXCEPT !.files = f] : f \in [LogPaths -> {<<>>, <<OldLine>>}]}
    /\ DrawsIdle
    /\ ShellIdle
    /\ LoopIdle
    /\ ManagerIdle
    /\ config = EternalGreenConfig
    /\ log_ok = TRUE
    /\ mouse = <<0, 0>>

NextLog ==
    \/ \E path \in LogPaths : ActivityLogger(path)
    \/ \E i \in 1..MaxLoggers : \E message \in Messages :
            log_activity(i, message)
    \/ \E i \in 1..MaxLoggers : \E message \in Messages :
            log_error(i, message)
    \/ \E i \in 1..MaxLoggers : \E message \in Messages :
            log_warning(i, message)
    \/ \E i \in 1..MaxLoggers : \E old_value \in Messages :
            log_config_change(i, old_value, <<"x">>)
    \/ \E i \in 1..MaxLoggers : log_shutdown(i)

SpecLog == InitLog /\ [][NextLog]_vars

----------------------------------------------------------------------------
(* What the specification's data model asks of a record (its section 3):   *)
(* the constraints a record violates, by the name of the field concerned.  *)

InRange(x, lo, hi) == IsInt(x) /\ x.v >= lo /\ x.v <= hi

Violations(c) ==
    {n \in FieldNames \cup {"interval_range_order"} :
        CASE n = "interval_seconds" -> ~InRange(c[n], 10, 3600)
          [] n = "movement_pixels" -> ~InRange(c[n], 1, 100)
          [] n = "silent_mode" -> ~IsBool(c[n])
          [] n = "log_file_path" -> ~(IsStr(c[n]) /\ c[n].v # 0)
          [] n = "random_interval" -> ~IsBool(c[n])
          [] n = "interval_range_min" -> ~InRange(c[n], 10, 3600)
          [] n = "interval_range_max" -> ~InRange(c[n], 10, 3600)
          [] n = "interval_range_order" ->
                ~(Comparable(c.interval_range_min, c.interval_range_max)
                  /\ c.interval_range_min.v < c.interval_range_max.v)}

Range(q) == {q[i] : i \in 1..Len(q)}

\* the record a well-formed document decodes to
Decoded(f) ==
    NewConfig([n \in DOMAIN f.doc |-> FromJson(f.doc[n])]).rec

WellFormed(f) == f.k = "json_object" /\ DOMAIN f.doc \subseteq FieldNames

Clean == [exc |-> "none", errors |-> <<>>]

----------------------------------------------------------------------------
(* The claims about the configuration manager *)

C2_SaveLoadRoundTrip ==
    (last.op = "load" /\ last.prev.op = "save" /\ last.prev.exc = "none")
        => /\ last.exc = "none"
           /\ last.ret # 0
           /\ \A f \in FieldNames : PyEq(heap[last.ret][f], last.pre.rec[f])

\* C2 witness: a load directly after the successful save of a record that
\* differs from the defaults in every field but one.
C2_Witness ==
    /\ last.op = "load"
    /\ last.prev.op = "save"
    /\ last.prev.exc = "none"
    /\ last.exc = "none"
    /\ heap[last.ret].interval_range_max = PyInt(30)
    /\ heap[last.ret].movement_pixels = PyBool(TRUE)

\* C4 as stated: update never partially applies.  The merged record is the
\* cached record with the given fields overridden; when it passes
\* validation it is written, cached and returned; otherwise update raises
\* and the cached reference and the file are as they were before the call.
\* Either way the object cached before the call keeps its field values.
C4_UpdateAllOrNothing ==
    last.op = "update" =>
        LET merged == Merge(last.mid.rec, last.kw)
            ok == /\ last.mid.cache # 0
                  /\ DOMAIN merged \subseteq FieldNames
                  /\ validate(merged) = Clean
        IN  /\ ok => /\ last.exc = "none"
                     /\ cache = last.ret
                     /\ heap[cache] = merged
                     /\ file = Dump(merged)
            /\ ~ok => /\ last.exc # "none"
                      /\ cache = last.pre.cache
                      /\ file = last.pre.file
            /\ last.pre.cache # 0 => heap[last.pre.cache] = last.pre.rec

\* C4 amended: as C4, but an update that raises leaves the cached reference
\* and the file as they were when the merge started, that is after the
\* load() that update performs first when no record is cached yet.
C4_UpdateAllOrNothingAfterLoad ==
    last.op = "update" =>
        LET merged == Merge(last.mid.rec, last.kw)
            ok == /\ last.mid.cache # 0
                  /\ DOMAIN merged \subseteq FieldNames
                  /\ validate(merged) = Clean
        IN  /\ ok => /\ last.exc = "none"
                     /\ cache = last.ret
                     /\ heap[cache] = merged
                     /\ file = Dump(merged)
            /\ ~ok => /\ last.exc # "none"
                      /\ cache = last.mid.cache
                      /\ file = last.mid.file
            /\ last.pre.cache # 0 =>
                    /\ heap[last.pre.cache] = last.pre.rec
                    /\ last.mid = last.pre
            /\ last.pre.cache = 0 =>
                    \/ last.mid = last.pre
                    \/ /\ last.mid.cache # 0
                       /\ last.mid.file \in {last.pre.file, Dump(EternalGreenConfig)}

\* C4 witness: an update of a cached, non-default record was refused, and
\* another one was applied.
C4_Witness ==
    /\ last.op = "update"
    /\ last.pre.cache # 0
    /\ last.pre.rec # EternalGreenConfig
    /\ last.exc = "ValueError"

\* C5 as stated: load never raises; from a missing or malformed document it
\* returns the defaults and leaves the default record on disk; a
\* well-formed file it leaves unchanged.
C5_LoadNeverFails ==
    last.op = "load" =>
        /\ last.exc = "none"
        /\ ~WellFormed(last.pre.file)
                => (heap[last.ret] = EternalGreenConfig
                    /\ file = Dump(EternalGreenConfig))
        /\ WellFormed(last.pre.file) => file = last.pre.file

\* C3 as stated: validate() returns a list with exactly one message per
\* violated constraint, so an empty list iff nothing is violated; a value of
\* interval_seconds or movement_pixels out of bounds is reported under the
\* name of its field.
C3_ValidateReportsEveryViolation ==
    vout # Pending =>
        /\ vout.exc = "none"
        /\ Len(vout.errors) = Cardinality(Violations(vcfg))
        /\ Range(vout.errors) = Violations(vcfg)

----------------------------------------------------------------------------
(* The claims about the activity simulator and its loop.  cyc describes     *)
(* the cycle that is running or, once cyc.result is set, has just ended.    *)

CycleEnded == cyc.result # "none"

\* C6, as the specification states it: after a simulated cycle the cursor
\* is where it was when the cycle began, whether the cycle succeeded or
\* failed.
C6_CursorRestored == CycleEnded => mouse = cyc.start

\* C6, amended: after a simulated cycle the cursor is where it was when the
\* cycle began if the cycle's moveTo call completed (every successful
\* cycle, and a cycle that fails in the key press) or the cycle failed in
\* reading the position.
C6_CursorRestoredAfterMoveTo ==
    (CycleEnded /\ (cyc.moved_back \/ cyc.failed = "position"))
        => mouse = cyc.start

\* C6: a second cycle has failed, in the key press, after moving the cursor
\* by a distance that is not zero and back
C6_Witness ==
    /\ cyc.n = 2
    /\ cyc.result = "False"
    /\ cyc.failed = "press"
    /\ cyc.moved_back
    /\ config.movement_pixels.v > 0
    /\ mouse = cyc.start

\* C7, as the specification states it: in every cycle exactly one key press
\* is made if silent_mode is False and none if silent_mode is True.
C7_KeyPressIffNotSilent ==
    CycleEnded =>
        cyc.press_calls = (IF Truthy(config.silent_mode) THEN 0 ELSE 1)

\* C7, amended: with silent_mode true no key press is ever made; a cycle
\* whose mouse movement completed makes exactly one key press if and only
\* if silent_mode is false; a cycle whose mouse movement raised makes none.
C7_KeyPressIffNotSilentAndMoved ==
    /\ Truthy(config.silent_mode) => cyc.press_calls = 0
    /\ CycleEnded =>
          cyc.press_calls =
              (IF cyc.moved_back /\ ~Truthy(config.silent_mode) THEN 1 ELSE 0)

\* C7: a second cycle has succeeded with silent_mode false and one key press
C7_Witness ==
    /\ cyc.n = 2
    /\ cyc.result = "True"
    /\ ~Truthy(config.silent_mode)
    /\ cyc.press_calls = 1

\* C8: a cycle in which an injection call raised ends in simulate_activity
\* (the exception goes to its except block, not to start_loop), returns
\* False with one ERROR entry and no INFO entry, and leaves _running True
\* unless a stop was requested; a cycle without failure returns True with
\* one INFO entry and no ERROR entry.
C8_FailedCycleReported ==
    /\ (cyc.failed # "none" /\ ~CycleEnded) =>
          (main.pc = "except" /\ main.exc = "none")
    /\ (cyc.failed # "none" /\ CycleEnded) =>
          (cyc.result = "False" /\ cyc.errors = 1 /\ cyc.infos = 0)
    /\ (cyc.failed = "none" /\ CycleEnded) =>
          (cyc.result = "True" /\ cyc.infos = 1 /\ cyc.errors = 0)
    /\ (cyc.result = "False" /\ ~obs.stop_requested) => sim.running

\* C8: a cycle has failed in an injection call and the loop, still
\* running, has gone on to its wait
C8_Witness ==
    /\ cyc.failed = "moveRel"
    /\ cyc.result = "False"
    /\ cyc.errors = 1
    /\ sim.running
    /\ main.pc = "wait_block"

\* C9: start_loop never exits, by returning or by raising, unless a stop
\* was requested (stop() called, or a SIGINT delivered).
C9_ExitsOnlyOnStopRequest ==
    obs.exit # "none" => (obs.stop_requested \/ sig.count > 0)

\* C10: a stop request made after start_loop has entered Running, by
\* stop() on another thread or by the SIGINT handler, at any moment of the
\* loop, always leads to start_loop ending; and absent a stop request the
\* wait ends only when the computed interval has elapsed.
C10_StopRequestEndsLoop ==
    /\ obs.stop_requested ~> (obs.exit # "none")
    /\ []((main.pc = "wait_exit" /\ ~obs.stop_requested)
            => TimedOut(main.next_interval, main.elapsed))

\* C11: on every exit from start_loop, by return or by an exception raised
\* anywhere inside it, the SIGINT handler that was in place before the call
\* is in place again, restored once for the one time the simulator's own
\* handler was installed.
C11_HandlerRestoredOnEveryExit ==
    /\ sig.restores <= sig.installs
    /\ obs.exit # "none" =>
          (sig.handler = NewSig.handler /\ sig.restores = sig.installs)

----------------------------------------------------------------------------
(* The claim about the next-interval policy *)

RandomInOrder(c) ==
    /\ Truthy(c.random_interval)
    /\ IsInt(c.interval_range_min) /\ IsInt(c.interval_range_max)
    /\ c.interval_range_min.v < c.interval_range_max.v

\* C12: with random_interval enabled and interval_range_min below
\* interval_range_max every value _get_next_interval returned is an integer
\* of [interval_range_min, interval_range_max] and every integer of that
\* range is a value the next call can return, whatever was drawn before;
\* with random_interval disabled every call returned interval_seconds.
C12_NextIntervalPolicy ==
    /\ RandomInOrder(config) =>
          /\ \A i \in DOMAIN draws :
                /\ IsInt(draws[i])
                /\ config.interval_range_min.v <= draws[i].v
                /\ draws[i].v <= config.interval_range_max.v
          /\ \A n \in config.interval_range_min.v ..
                       config.interval_range_max.v :
                PyInt(n) \in get_next_interval(config)
    /\ ~Truthy(config.random_interval) =>
          \A i \in DOMAIN draws : draws[i] = config.interval_seconds

\* C12: three draws on a random range of more than two values returned
\* the bottom of the range, then the top, then a value between
C12_Witness ==
    /\ RandomInOrder(config)
    /\ Len(draws) = 3
    /\ draws[1] = config.interval_range_min
    /\ draws[2] = config.interval_range_max
    /\ draws[1].v < draws[3].v /\ draws[3].v < draws[2].v

----------------------------------------------------------------------------
(* The claims about the interactive shell.  shell.last describes the menu   *)
(* choice handled last: what was typed, what the edit method returned, and  *)
(* in pre the file, the manager's record and the shell's record before it.  *)

LastWasEdit == shell.last.choice \in (DOMAIN EditChoices) \cup {"7"}

\* what the user typed for the edit handled last is empty once stripped,
\* or is not an integer where one is asked for
LastInputFails ==
    \/ /\ shell.last.choice \in {"2", "3", "5"}
       /\ Strip(shell.last.text) = <<>>
    \/ /\ shell.last.choice \in {"2", "3"}
       /\ ~IsIntText(Strip(shell.last.text))
    \/ /\ shell.last.choice = "7"
       /\ \/ Strip(shell.last.text) = <<>>
          \/ Strip(shell.last.text2) = <<>>
          \/ ~IsIntText(Strip(shell.last.text))
          \/ ~IsIntText(Strip(shell.last.text2))

\* the new values of the edit handled last, its input being well formed
LastValues ==
    CASE shell.last.choice \in {"2", "3"} ->
            EditChoices[shell.last.choice] :>
                PyInt(IntOf(Strip(shell.last.text)))
      [] shell.last.choice \in {"4", "6"} ->
            EditChoices[shell.last.choice] :>
                PyBool(~Truthy(shell.last.pre.mrec[EditChoices[shell.last.choice]]))
      [] shell.last.choice = "5" ->
            "log_file_path" :> PathOf(Strip(shell.last.text))
      [] shell.last.choice = "7" ->
            ("interval_range_min" :> PyInt(IntOf(Strip(shell.last.text))))
            @@ ("interval_range_max" :> PyInt(IntOf(Strip(shell.last.text2))))

\* the record the edit handled last asks for breaks a constraint of the
\* data model, so that the manager rejects it
LastMergeRejected ==
    /\ ~LastInputFails
    /\ Violations(Merge(shell.last.pre.mrec, LastValues)) # {}

\* C13: an edit (menu options 2 to 7) whose input is empty or is not an
\* integer, or whose merged record the manager rejects, returns False
\* without raising, leaves the shell's record, the manager's cached record
\* and the config file as they were, writes no config-change log entry, and
\* handle_input returns True: the shell is back at its menu.
C13_FailedEditChangesNothing ==
    (LastWasEdit /\ (LastInputFails \/ LastMergeRejected)) =>
        /\ shell.pc = "menu"
        /\ shell.last.ret = FALSE
        /\ shell.last.cont = TRUE
        /\ shell.last.logged = FALSE
        /\ shell.config = shell.last.pre.cfg
        /\ heap[shell.config] = shell.last.pre.rec
        /\ cache = shell.last.pre.cache
        /\ heap[cache] = shell.last.pre.mrec
        /\ file = shell.last.pre.file

\* C13: on a valid record the user has asked for a random range whose
\* minimum is above its maximum, and the manager has rejected it
C13_Witness ==
    /\ shell.last.choice = "7"
    /\ Violations(shell.last.pre.mrec) = {}
    /\ LastMergeRejected
    /\ shell.last.ret = FALSE
    /\ IntOf(Strip(shell.last.text)) > IntOf(Strip(shell.last.text2))

\* C14: an interrupt received while the loop started from option 8 runs
\* stops the loop and brings the shell back to its menu; and the shell ends
\* only on option 9, or on an interrupt or end of input at a prompt.
C14_InterruptReturnsToMenu ==
    /\ (shell.pc = "loop" /\ sig.count > 0) ~> (shell.pc = "menu")
    /\ [](shell.pc # "crashed")
    /\ [](shell.pc = "exited" =>
            shell.cause \in {"9", "KeyboardInterrupt", "EOFError"})

LoopSettings ==
    {"interval_seconds", "movement_pixels", "silent_mode", "random_interval",
     "interval_range_min", "interval_range_max"}

\* C16: the loop started from option 8 runs with the configuration
\* committed last: the interval, movement, silent-mode and random-interval
\* settings of the simulator's record are those of the record the manager
\* holds.
C16_LoopRunsCommittedConfig ==
    shell.pc = "loop" =>
        \A f \in LoopSettings : config[f] = heap[cache][f]

----------------------------------------------------------------------------
(* The claim about is_running *)

\* C17: is_running is False before the first start_loop, True from the
\* moment start_loop begins until a stop is requested, and False whenever
\* start_loop has exited, by returning or by an exception.
C17_IsRunningReflectsLoop ==
    /\ (main.pc = "idle" /\ obs.exit = "none") => ~sim.running
    /\ (main.pc # "idle" /\ ~obs.stop_requested) => sim.running
    /\ obs.exit # "none" => ~sim.running

----------------------------------------------------------------------------
(* The claim about the validity of what load returns *)

\* C19: the record load() returns passes validation whatever the config
\* file held, and so does the manager's cached record after any sequence of
\* load, save and update calls.
C19_LoadedRecordIsValid ==
    /\ (last.op = "load" /\ last.exc = "none")
            => validate(heap[last.ret]) = Clean
    /\ cache # 0 => validate(heap[cache]) = Clean

----------------------------------------------------------------------------
(* The claims about the log files *)

\* the level each logging call is said to log at
LevelOfCall ==
    ("log_activity" :> "INFO") @@ ("log_config_change" :> "INFO")
    @@ ("log_shutdown" :> "INFO") @@ ("log_warning" :> "WARNING")
    @@ ("log_error" :> "ERROR")

\* the file of the ActivityLogger through which the last call was made
LastLogFile == logs.inst[logs.last.inst].path

IsPrefix(s, t) == Len(s) <= Len(t) /\ SubSeq(t, 1, Len(s)) = s

\* C15: the log file is append-only.  Every logging call leaves the lines
\* already in the files as they were and appends, at the end of the file of
\* its ActivityLogger, exactly one line, which has the head
\* [timestamp] [LEVEL] [component], the level fixed by the call, and the
\* message.
C15_AppendsOneLine ==
    logs.last.call # "none" =>
        /\ \A q \in LogPaths : IsPrefix(logs.last.pre[q], logs.files[q])
        /\ Len(logs.files[LastLogFile]) = Len(logs.last.pre[LastLogFile]) + 1
        /\ \E e \in {logs.files[LastLogFile][Len(logs.files[LastLogFile])]} :
              /\ e.head
              /\ e.level = LevelOfCall[logs.last.call]
              /\ e.name = "eternal_green"
              /\ e.text = logs.last.msg

\* C20: every line logged through an ActivityLogger is in the file given at
\* that instance's construction and in no other file, however the calls of
\* two instances with different paths are interleaved.
C20_LinesGoToOwnFile ==
    /\ \A q \in LogPaths : \A k \in 1..Len(logs.files[q]) :
          logs.files[q][k].by # 0
              => logs.inst[logs.files[q][k].by].path = q
    /\ logs.last.call # "none" =>
          Len(logs.files[LastLogFile]) > Len(logs.last.pre[LastLogFile])

----------------------------------------------------------------------------
(* The claim about what follows a stop request *)

\* C18: once a stop request (stop() or SIGINT) has been made during a run
\* of the loop, no new injection cycle begins in that run, and when the
\* run has ended the shutdown notice has been logged once for it.
C18_NoCycleAfterStopRequest ==
    /\ ~cyc.after_stop
    /\ obs.shutdowns <= 1
    /\ (obs.exit = "returned" /\ stopper \in {"idle", "done"})
            => obs.shutdowns = 1

----------------------------------------------------------------------------
(* The claim about starting the loop again *)

\* C21: after a run has been stopped and start_loop has returned, a second
\* start_loop on the same simulator is Running until a stop request is
\* made during it, and ends only on such a request: the stop request of
\* the earlier run never ends the later run.  (A SIGINT that arrives before
\* the run has installed its handler ends it by KeyboardInterrupt: that is
\* a request of the later run too.)
C21_RestartedLoopRunsUntilNewStop ==
    obs.run > 1 =>
        /\ (main.pc # "idle" /\ ~obs.stop_requested) => sim.running
        /\ obs.exit # "none" =>
              (obs.stop_requested \/ obs.exc = "KeyboardInterrupt")

====
